---- MODULE Spec2Model ----
(***************************************************************************)
(* Model of src/main.py: the Streamlit form that gates a submission on the *)
(* "sk-" prefix of the API key, generate_response, its prompt template     *)
(* (CustomPromptTemplate.format), its output parser                        *)
(* (CustomOutputParser.parse) and the AgentExecutor run it configures with *)
(* max_iterations=3.                                                       *)
(*                                                                         *)
(* Text is a sequence of tokens.  The markers the parser looks for         *)
(* ("Final Answer:", "Action", "Input") are one token each; every other    *)
(* token is one character or one opaque word, so no marker can start or    *)
(* end inside another token.                                               *)
(***************************************************************************)
EXTENDS Integers, Sequences, FiniteSets, TLC

VARIABLES
    query_text,          \* value of the query text_input (line 190)
    key_widget,          \* what is typed in the password input, browser side
    openai_api_key,      \* the script variable of line 196: [bound, value]
    submitted,           \* return value of form_submit_button (line 201)
    result,              \* the list of line 194
    rendered,            \* what st.info shows (line 218); <<>> when nothing
    pc,                  \* position of the script run
    calls,               \* arguments of the generate_response calls of this script run
    tools,               \* tools of line 62 (names, in retrieval order)
    intermediate_steps,  \* the executor's transcript: <<action, observation>> pairs
    iterations,          \* the executor's iteration counter
    prompt,              \* variables substituted into the template by the last format()
    completion,          \* the completion the model produced, by its parts
    llm_output,          \* the completion as text
    output,              \* what parse returned, or the executor's final AgentFinish
    invoked,             \* (tool, tool_input) of every run of a tool of `tools`
    response             \* return value of generate_response (line 209)

vars == <<query_text, key_widget, openai_api_key, submitted, result, rendered, pc,
          calls, tools, intermediate_steps, iterations, prompt, completion,
          llm_output, output, invoked, response>>

uiVars == <<query_text, key_widget, openai_api_key, submitted, result, rendered, calls>>

loopVars == <<tools, intermediate_steps, iterations, prompt, completion, llm_output,
              output, invoked, response>>

----------------------------------------------------------------------------
(* Tokens *)

FA == "Final Answer:"
ACT == "Action"
INP == "Input"
COLON == ":"
NL == "\n"
SP == " "
QUOTE == "\""
DIGIT == "1"
WORD == "a"
OBSERVATION == "Observation"
THOUGHT == "Thought"

\* what \s and str.strip() take
Whitespace == {SP, NL}

\* what \d takes
Digits == {DIGIT}

----------------------------------------------------------------------------
(* Python string operations on token sequences *)

Min(a, b) == IF a < b THEN a ELSE b

Suffix(s, i) == SubSeq(s, i, Len(s))

Contains(s, tok) == \E i \in DOMAIN s : s[i] = tok

RECURSIVE LStrip(_, _)
LStrip(s, chars) ==
    IF s # <<>> /\ Head(s) \in chars THEN LStrip(Tail(s), chars) ELSE s

RECURSIVE RStrip(_, _)
RStrip(s, chars) ==
    IF s # <<>> /\ s[Len(s)] \in chars THEN RStrip(SubSeq(s, 1, Len(s) - 1), chars) ELSE s

\* str.strip(chars)
Strip(s, chars) == RStrip(LStrip(s, chars), chars)

\* str.startswith(prefix)
StartsWithAnywhere(s, prefix) ==
    \E i \in 1..(Len(s) + 1) :
        /\ i + Len(prefix) - 1 <= Len(s)
        /\ SubSeq(s, i, i + Len(prefix) - 1) = prefix

StartsWith(s, prefix) ==
    /\ Len(prefix) <= Len(s)
    /\ SubSeq(s, 1, Len(prefix)) = prefix

\* s.split(tok)[1]: the piece after the first occurrence, up to the next one
SplitSecond(s, tok) ==
    LET first == CHOOSE i \in DOMAIN s : s[i] = tok /\ \A j \in 1..(i - 1) : s[j] # tok
        rest == Suffix(s, first + 1)
        stop == IF Contains(rest, tok)
                THEN CHOOSE i \in DOMAIN rest : rest[i] = tok /\ \A j \in 1..(i - 1) : rest[j] # tok
                ELSE Len(rest) + 1
    IN SubSeq(rest, 1, stop - 1)

\* s.split(tok)[-1] for s containing tok: the piece after the last occurrence
SplitLast(s, tok) ==
    LET last == CHOOSE i \in DOMAIN s : s[i] = tok /\ \A j \in (i + 1)..Len(s) : s[j] # tok
    IN Suffix(s, last + 1)

----------------------------------------------------------------------------
\* The regular expression of line 134, as re.search with re.DOTALL runs it:
\* "Action", blanks, digits, blanks, ":", a lazy group 1, a newline, "Action",
\* blanks, digits, blanks, "Input", blanks, digits, blanks, ":", blanks, and a
\* greedy group 2 that runs to the end of the text.

\* first position >= i whose token is outside chars (Len(s) + 1 when none)
RECURSIVE SkipWhile(_, _, _)
SkipWhile(s, i, chars) ==
    IF i <= Len(s) /\ s[i] \in chars THEN SkipWhile(s, i + 1, chars) ELSE i

\* blanks, digits, blanks from i, each run greedy: the position after them
SkipIndex(s, i) ==
    SkipWhile(s, SkipWhile(s, SkipWhile(s, i, Whitespace), Digits), Whitespace)

\* the pattern's head (through the first colon) at i: the position after the colon, 0 when it does not match
HeadEnd(s, i) ==
    IF i <= Len(s) /\ s[i] = ACT
    THEN LET c == SkipIndex(s, i + 1)
         IN IF c <= Len(s) /\ s[c] = COLON THEN c + 1 ELSE 0
    ELSE 0

\* the same without the \n the pattern asks for before the second Action
TailEndNoNewline(s, j) ==
    IF j <= Len(s) /\ s[j] = ACT
    THEN LET k == SkipIndex(s, j + 1)
         IN IF k <= Len(s) /\ s[k] = INP
            THEN LET c == SkipIndex(s, k + 1)
                 IN IF c <= Len(s) /\ s[c] = COLON THEN c + 1 ELSE 0
            ELSE 0
    ELSE 0

\* the pattern's middle (newline through the second colon) at j: the position
\* after the colon, 0 when it does not match
TailEnd(s, j) ==
    IF j + 1 <= Len(s) /\ s[j] = NL /\ s[j + 1] = ACT
    THEN LET k == SkipIndex(s, j + 2)
         IN IF k <= Len(s) /\ s[k] = INP
            THEN LET c == SkipIndex(s, k + 1)
                 IN IF c <= Len(s) /\ s[c] = COLON THEN c + 1 ELSE 0
            ELSE 0
    ELSE 0

\* a greedy group 1: the last position from h where the tail matches
TailStartGreedy(s, h) ==
    LET js == {j \in h..Len(s) : TailEnd(s, j) # 0}
    IN IF js = {} THEN 0 ELSE CHOOSE j \in js : \A k \in js : k <= j

\* group 1 is lazy: the first position from h where the tail matches, 0 when none
TailStart(s, h) ==
    LET js == {j \in h..Len(s) : TailEnd(s, j) # 0}
    IN IF js = {} THEN 0 ELSE CHOOSE j \in js : \A k \in js : j <= k

\* re.search: the leftmost start with a match; [found, group1, group2]
Search(s) ==
    LET starts == {i \in DOMAIN s : HeadEnd(s, i) # 0 /\ TailStart(s, HeadEnd(s, i)) # 0}
    IN IF starts = {}
       THEN [found |-> FALSE, group1 |-> <<>>, group2 |-> <<>>]
       ELSE LET i == CHOOSE a \in starts : \A b \in starts : a <= b
                h == HeadEnd(s, i)
                j == TailStart(s, h)
                e == SkipWhile(s, TailEnd(s, j), Whitespace)
            IN [found |-> TRUE, group1 |-> SubSeq(s, h, j - 1), group2 |-> Suffix(s, e)]

----------------------------------------------------------------------------
(* CustomOutputParser.parse *)

AgentFinish(out, log) ==
    [type |-> "AgentFinish", tool |-> <<>>, tool_input |-> <<>>, output |-> out, log |-> log]

AgentAction(tool, tool_input, log) ==
    [type |-> "AgentAction", tool |-> tool, tool_input |-> tool_input, output |-> <<>>,
     log |-> log]

\* raise ValueError(f"Could not parse LLM output: `{llm_output}`")
ValueError(text) ==
    [type |-> "ValueError", tool |-> <<>>, tool_input |-> <<>>, output |-> <<>>, log |-> text]

NoOutput == [type |-> "none", tool |-> <<>>, tool_input |-> <<>>, output |-> <<>>, log |-> <<>>]

\* action_input.strip() in place of .strip(" ")
ToolInputStripAll(group2) == Strip(Strip(group2, Whitespace), {QUOTE})

\* action_input.strip(" ").strip('"')
ToolInput(group2) == Strip(Strip(group2, {SP}), {QUOTE})

\* split("Final Answer:")[1] in place of [-1]
FinalAnswerFirst(text) == Strip(SplitSecond(text, FA), Whitespace)

\* llm_output.split("Final Answer:")[-1].strip()
FinalAnswer(text) == Strip(SplitLast(text, FA), Whitespace)

Parse(text) ==
    IF Contains(text, FA)
    THEN AgentFinish(FinalAnswer(text), text)
    ELSE LET match == Search(text)
         IN IF ~match.found
            THEN ValueError(text)
            ELSE AgentAction(Strip(match.group1, Whitespace), ToolInput(match.group2), text)

----------------------------------------------------------------------------
(* Plugins, the retriever and get_tools *)

\* urls (lines 25-29), by the plugin each one loads
AI_PLUGINS == <<"speak", "klarna", "schooldigger">>

\* toolkits_dict[plugin].nla_tools: one tool per endpoint of the plugin
nla_tools(plugin) ==
    CASE plugin = "speak" -> <<"t1", "t2">>
      [] plugin = "klarna" -> <<"t3">>
      [] plugin = "schooldigger" -> <<"t4">>

Description(tool) == <<"nla", tool>>

\* vector_store.as_retriever() searches with the library's default k
DefaultK == 4

\* The embedding service is opaque; it stands here as a fixed function of the
\* text: a plugin is the nearer the more of its words the text has.
Keywords(plugin) ==
    CASE plugin = "speak" -> {"say"}
      [] plugin = "klarna" -> {"shirt", "price"}
      [] plugin = "schooldigger" -> {"school", "rank"}

Score(plugin, text) == Cardinality({i \in DOMAIN text : text[i] \in Keywords(plugin)})

\* plugin index a is nearer to text than b (ties: catalog order)
Nearer(a, b, text) ==
    \/ Score(AI_PLUGINS[a], text) > Score(AI_PLUGINS[b], text)
    \/ Score(AI_PLUGINS[a], text) = Score(AI_PLUGINS[b], text) /\ a < b

\* retriever.get_relevant_documents(text): the k nearest plugins, nearest first
get_relevant_documents(text) ==
    LET n == Len(AI_PLUGINS)
        rank(a) == 1 + Cardinality({b \in 1..n : b # a /\ Nearer(b, a, text)})
        at(r) == CHOOSE a \in 1..n : rank(a) = r
    IN [r \in 1..Min(DefaultK, n) |-> AI_PLUGINS[at(r)]]

RECURSIVE ExtendAll(_)
ExtendAll(kits) ==
    IF kits = <<>> THEN <<>> ELSE nla_tools(Head(kits)) \o ExtendAll(Tail(kits))

\* get_tools(query), lines 51-60: the names of the tools, in order
get_tools(query) == ExtendAll(get_relevant_documents(query))

----------------------------------------------------------------------------
(* CustomPromptTemplate.format *)

RECURSIVE Thoughts(_)
Thoughts(steps) ==
    IF steps = <<>>
    THEN <<>>
    ELSE Head(steps)[1].log
         \o <<NL, OBSERVATION, COLON, SP>> \o Head(steps)[2] \o <<NL, THOUGHT, COLON, SP>>
         \o Thoughts(Tail(steps))

\* tools_getter called with the scratchpad in place of the question
ToolsGetterArgScratchpad(input, thoughts) == thoughts

\* self.tools_getter(kwargs["input"]), line 106
ToolsGetterArg(input, thoughts) == input

NoPrompt == [input |-> <<>>, agent_scratchpad |-> <<>>, tools |-> <<>>, tool_names |-> <<>>]

Format(input, steps) ==
    LET thoughts == Thoughts(steps)
        ts == get_tools(ToolsGetterArg(input, thoughts))
    IN [input |-> input,
        agent_scratchpad |-> thoughts,
        tools |-> [i \in DOMAIN ts |-> <<ts[i], Description(ts[i])>>],
        tool_names |-> ts]

----------------------------------------------------------------------------
(* Completions of the language model *)

\* longest free-form completion, longest Action text, longest Action Input
\* text and longest answer text tried on the parser
MaxRaw == 3
MaxX == 2
MaxY == 3
MaxAnswer == 3

AllSeqs(S, n) == UNION {[1..k -> S] : k \in 0..n}

Sample(shape, pre, idx, x, y) == [shape |-> shape, pre |-> pre, idx |-> idx, x |-> x, y |-> y]

\* "Action<idx>:<x>", newline, "Action<idx> Input<idx>:<y>"
ActionText(idx, x, y) ==
    <<ACT>> \o idx \o <<COLON>> \o x \o <<NL, ACT>> \o idx \o <<SP, INP>> \o idx \o <<COLON>> \o y

\* the text of a completion: free text; text, then an Action / Action Input
\* pair; text, then the marker, a space and an answer
Text(c) ==
    CASE c.shape = "raw" -> c.pre
      [] c.shape = "action" -> c.pre \o ActionText(c.idx, c.x, c.y)
      [] c.shape = "finish" -> c.pre \o <<FA, SP>> \o c.y

Alphabet == {FA, ACT, INP, COLON, NL, SP, QUOTE, DIGIT, WORD, "t1"}

Indexes == {<<>>, <<DIGIT>>}

ActionPrefixes == {<<>>, <<WORD, NL>>}

Xs == AllSeqs({SP, NL, "t1"}, MaxX)

Ys == AllSeqs({SP, NL, QUOTE, WORD}, MaxY)
        \cup {<<WORD, NL, ACT, SP, INP, COLON, WORD>>, <<QUOTE, QUOTE, WORD, QUOTE, QUOTE>>}

FinishPrefixes ==
    {<<>>, <<WORD>>, <<FA, WORD, NL>>, ActionText(<<>>, <<SP, "t1">>, <<SP, WORD>>) \o <<NL>>}

Answers == AllSeqs({SP, NL, WORD, FA}, MaxAnswer)

\* the completions the parser is tried on
ParserSamples ==
    {Sample("raw", t, <<>>, <<>>, <<>>) : t \in AllSeqs(Alphabet, MaxRaw)}
    \cup {Sample("action", c[1], c[2], c[3], c[4]) : c \in ActionPrefixes \X Indexes \X Xs \X Ys}
    \cup {Sample("finish", c[1], <<>>, <<>>, c[2]) : c \in FinishPrefixes \X Answers}

\* the completions the model may return to the executor
LoopSamples ==
    { Sample("raw", <<>>, <<>>, <<>>, <<>>),
      Sample("raw", <<WORD>>, <<>>, <<>>, <<>>),
      Sample("raw", <<ACT, COLON, SP, "t1">>, <<>>, <<>>, <<>>),
      Sample("raw", <<ACT, COLON, "t1", SP, ACT, SP, INP, COLON, WORD>>, <<>>, <<>>, <<>>),
      Sample("action", <<>>, <<>>, <<SP, "t1">>, <<SP, "say">>),
      Sample("action", <<WORD, NL>>, <<DIGIT>>, <<SP, "t3">>, <<SP, QUOTE, "price", QUOTE>>),
      Sample("action", <<>>, <<>>, <<SP, WORD>>, <<SP, WORD>>),
      Sample("action", <<>>, <<>>, <<SP, "t1", WORD>>, <<WORD>>),
      Sample("finish", <<WORD, NL>>, <<>>, <<>>, <<WORD>>),
      Sample("finish", ActionText(<<>>, <<SP, "t1">>, <<SP, WORD>>) \o <<NL>>, <<>>, <<>>,
             <<WORD, SP>>) }

NoSample == Sample("none", <<>>, <<>>, <<>>, <<>>)

\* what a tool of the plugins may answer
Observations == {<<"price">>, <<"rank">>}

----------------------------------------------------------------------------
(* The form, lines 190-218 *)

Queries == {<<>>, <<"shirt">>, <<"school">>}

Keys == {<<>>, <<"a", "b", "c">>, <<"s", "k">>, <<"x", "s", "k", "-">>, <<"s", "k", "-", "1">>}

SK == <<"s", "k", "-">>

Bound(v) == [bound |-> TRUE, value |-> v]

\* after del openai_api_key the name is unbound
Unbound == [bound |-> FALSE, value |-> <<>>]

\* the key is accepted wherever "sk-" occurs in it
KeyAcceptedAnywhere(key) == StartsWithAnywhere(key, SK)

\* openai_api_key.startswith("sk-"), line 205
KeyAccepted(key) == StartsWith(key, SK)

LoopInit ==
    /\ tools = <<>>
    /\ intermediate_steps = <<>>
    /\ iterations = 0
    /\ prompt = NoPrompt
    /\ completion = NoSample
    /\ llm_output = <<>>
    /\ output = NoOutput
    /\ invoked = <<>>
    /\ response = <<>>

\* a script run starts with none of the objects of the run before it
LoopReset ==
    /\ tools' = <<>>
    /\ intermediate_steps' = <<>>
    /\ iterations' = 0
    /\ prompt' = NoPrompt
    /\ completion' = NoSample
    /\ llm_output' = <<>>
    /\ output' = NoOutput
    /\ invoked' = <<>>
    /\ response' = <<>>

\* the page as first loaded: the script has run once, nothing submitted
Init ==
    /\ query_text = <<>>
    /\ key_widget = <<>>
    /\ openai_api_key = Bound(<<>>)
    /\ submitted = FALSE
    /\ result = <<>>
    /\ rendered = <<>>
    /\ pc = "idle"
    /\ calls = <<>>
    /\ LoopInit

\* no script run is in progress
Waiting == pc \in {"idle", "aborted"}

\* The user edits the query: the script reruns without a submission and
\* renders nothing (lines 190-204, 216).
TypeQuery(q) ==
    /\ Waiting
    /\ q # query_text
    /\ query_text' = q
    /\ openai_api_key' = Bound(<<>>)
    /\ submitted' = FALSE
    /\ result' = <<>>
    /\ rendered' = <<>>
    /\ calls' = <<>>
    /\ pc' = "idle"
    /\ LoopReset
    /\ UNCHANGED key_widget

\* The user types a key; inside a form this reruns nothing.  The input is
\* disabled while the query is empty (line 199).
TypeKey(k) ==
    /\ Waiting
    /\ query_text # <<>>
    /\ k # key_widget
    /\ key_widget' = k
    /\ UNCHANGED <<query_text, openai_api_key, submitted, result, rendered, pc, calls>>
    /\ UNCHANGED loopVars

\* The user presses Submit (enabled only with a query, line 203): the script
\* reruns with the form's values, and clear_on_submit empties the form.
PressSubmit ==
    /\ Waiting
    /\ query_text # <<>>
    /\ openai_api_key' = Bound(key_widget)
    /\ key_widget' = <<>>
    /\ submitted' = TRUE
    /\ result' = <<>>
    /\ rendered' = <<>>
    /\ calls' = <<>>
    /\ pc' = "form"
    /\ LoopReset
    /\ UNCHANGED query_text

\* line 205 true: generate_response(openai_api_key, query_text) is called
CallGenerateResponse ==
    /\ pc = "form"
    /\ submitted /\ KeyAccepted(openai_api_key.value)
    /\ calls' = Append(calls, query_text)
    /\ pc' = "run"
    /\ UNCHANGED <<query_text, key_widget, openai_api_key, submitted, result, rendered>>
    /\ UNCHANGED loopVars

\* line 205 false: the script goes on to line 216 with result empty
SkipGenerateResponse ==
    /\ pc = "form"
    /\ ~(submitted /\ KeyAccepted(openai_api_key.value))
    /\ pc' = "idle"
    /\ UNCHANGED uiVars
    /\ UNCHANGED loopVars

----------------------------------------------------------------------------
(* generate_response and the AgentExecutor run of lines 158-165 *)

max_iterations == 3

\* the executor's answer when it stops at the cap (early stopping "force")
StoppedText == <<"Agent stopped due to iteration limit or time limit.">>

\* one iteration more than the cap
ShouldContinueInclusive(n) == n <= max_iterations

\* the executor goes on while iterations < max_iterations
ShouldContinue(n) == n < max_iterations

\* the cap raises instead of answering
ReturnStoppedRaises(steps) == ValueError(StoppedText)

\* what the executor returns at the cap
ReturnStoppedResponse(steps) == AgentFinish(StoppedText, <<>>)

\* every name is taken for a tool of the run
ToolKnownAlways(name, ts) == TRUE

\* the executor looks the action's tool up by name among tools (line 160)
ToolKnown(name, ts) == \E i \in DOMAIN ts : <<ts[i]>> = name

\* what the executor observes for a name that is no tool of the run
InvalidToolObservation(name) == name \o <<"is not a valid tool">>

\* the new step goes to the front of the transcript
ExtendFront(steps, step) == <<step>> \o steps

\* intermediate_steps.extend([step])
Extend(steps, step) == Append(steps, step)

\* lines 21-62 and 145-163: plugins, index, tools, prompt, agent, executor
Setup ==
    /\ pc = "run"
    /\ tools' = get_tools(query_text)
    /\ intermediate_steps' = <<>>
    /\ iterations' = 0
    /\ pc' = "loop"
    /\ UNCHANGED uiVars
    /\ UNCHANGED <<prompt, completion, llm_output, output, invoked, response>>

\* a plugin manifest or the embedding service fails (lines 30, 42, 45)
SetupFails ==
    /\ pc = "run"
    /\ pc' = "aborted"
    /\ UNCHANGED uiVars
    /\ UNCHANGED loopVars

\* Thinking: format the prompt, complete it, parse the completion.  A
\* ValueError of parse leaves the executor, generate_response and the script.
Think ==
    /\ pc = "loop"
    /\ ShouldContinue(iterations)
    /\ \E c \in LoopSamples :
          /\ completion' = c
          /\ llm_output' = Text(c)
          /\ output' = Parse(Text(c))
    /\ prompt' = Format(query_text, intermediate_steps)
    /\ pc' = CASE output'.type = "AgentFinish" -> "return"
               [] output'.type = "AgentAction" -> "act"
               [] output'.type = "ValueError" -> "aborted"
    /\ UNCHANGED uiVars
    /\ UNCHANGED <<tools, intermediate_steps, iterations, invoked, response>>

\* the completion service fails
LLMFails ==
    /\ pc = "loop"
    /\ ShouldContinue(iterations)
    /\ prompt' = Format(query_text, intermediate_steps)
    /\ pc' = "aborted"
    /\ UNCHANGED uiVars
    /\ UNCHANGED <<tools, intermediate_steps, iterations, completion, llm_output, output,
                   invoked, response>>

\* Acting, the tool is one of tools: run it and record the observation
RunTool ==
    /\ pc = "act"
    /\ ToolKnown(output.tool, tools)
    /\ \E obs \in Observations :
          intermediate_steps' = Extend(intermediate_steps, <<output, obs>>)
    /\ invoked' = Append(invoked, <<output.tool, output.tool_input>>)
    /\ iterations' = iterations + 1
    /\ pc' = "loop"
    /\ UNCHANGED uiVars
    /\ UNCHANGED <<tools, prompt, completion, llm_output, output, response>>

\* Acting, the tool raises
ToolFails ==
    /\ pc = "act"
    /\ ToolKnown(output.tool, tools)
    /\ invoked' = Append(invoked, <<output.tool, output.tool_input>>)
    /\ pc' = "aborted"
    /\ UNCHANGED uiVars
    /\ UNCHANGED <<tools, intermediate_steps, iterations, prompt, completion, llm_output,
                   output, response>>

\* Acting, the name is no tool of the run: the executor records that as the
\* observation and goes on
RunInvalidTool ==
    /\ pc = "act"
    /\ ~ToolKnown(output.tool, tools)
    /\ intermediate_steps' =
          Extend(intermediate_steps, <<output, InvalidToolObservation(output.tool)>>)
    /\ iterations' = iterations + 1
    /\ pc' = "loop"
    /\ UNCHANGED uiVars
    /\ UNCHANGED <<tools, prompt, completion, llm_output, output, invoked, response>>

\* the cap is reached: the executor stops with its stopped response
CapStop ==
    /\ pc = "loop"
    /\ ~ShouldContinue(iterations)
    /\ output' = ReturnStoppedResponse(intermediate_steps)
    /\ pc' = IF output'.type = "AgentFinish" THEN "return" ELSE "aborted"
    /\ UNCHANGED uiVars
    /\ UNCHANGED <<tools, intermediate_steps, iterations, prompt, completion, llm_output,
                   invoked, response>>

\* lines 165 and 209-218: the answer is returned, appended, the key deleted,
\* the answer rendered
Render ==
    /\ pc = "return"
    /\ response' = output.output
    /\ result' = Append(result, response')
    /\ openai_api_key' = Unbound
    /\ rendered' = response'
    /\ pc' = "idle"
    /\ UNCHANGED <<query_text, key_widget, submitted, calls>>
    /\ UNCHANGED <<tools, intermediate_steps, iterations, prompt, completion, llm_output,
                   output, invoked>>

Next ==
    \/ \E q \in Queries : TypeQuery(q)
    \/ \E k \in Keys : TypeKey(k)
    \/ PressSubmit
    \/ CallGenerateResponse
    \/ SkipGenerateResponse
    \/ Setup
    \/ SetupFails
    \/ Think
    \/ LLMFails
    \/ RunTool
    \/ ToolFails
    \/ RunInvalidTool
    \/ CapStop
    \/ Render

Spec == Init /\ [][Next]_vars

----------------------------------------------------------------------------
(* The parser alone, on the completions of ParserSamples *)

ParserInit ==
    /\ query_text = <<>>
    /\ key_widget = <<>>
    /\ openai_api_key = Bound(<<>>)
    /\ submitted = FALSE
    /\ result = <<>>
    /\ rendered = <<>>
    /\ pc = "parse"
    /\ calls = <<>>
    /\ tools = <<>>
    /\ intermediate_steps = <<>>
    /\ iterations = 0
    /\ prompt = NoPrompt
    /\ completion \in ParserSamples
    /\ llm_output = <<>>
    /\ output = NoOutput
    /\ invoked = <<>>
    /\ response = <<>>

\* output_parser.parse(llm_output)
RunParse ==
    /\ pc = "parse"
    /\ llm_output' = Text(completion)
    /\ output' = Parse(Text(completion))
    /\ pc' = "parsed"
    /\ UNCHANGED uiVars
    /\ UNCHANGED <<tools, intermediate_steps, iterations, prompt, completion, invoked, response>>

ParserNext == RunParse

ParserSpec == ParserInit /\ [][ParserNext]_vars

----------------------------------------------------------------------------
(* Properties *)

InPrefixSK(key) == Len(key) >= 3 /\ key[1] = "s" /\ key[2] = "k" /\ key[3] = "-"

\* s[a..b] is blanks, then digits, then blanks (each possibly none)
Gap(s, a, b) ==
    \E p \in a..(b + 1) : \E q \in p..(b + 1) :
        /\ \A i \in a..(p - 1) : s[i] \in Whitespace
        /\ \A i \in p..(q - 1) : s[i] \in Digits
        /\ \A i \in q..b : s[i] \in Whitespace

\* s holds "Action<gap>:", later a newline followed by "Action<gap>Input<gap>:"
HasActionPair(s) ==
    \E i \in DOMAIN s :
        /\ s[i] = ACT
        /\ \E c1 \in (i + 1)..Len(s) :
              /\ s[c1] = COLON
              /\ Gap(s, i + 1, c1 - 1)
              /\ \E j \in (c1 + 1)..(Len(s) - 1) :
                    /\ s[j] = NL
                    /\ s[j + 1] = ACT
                    /\ \E k \in (j + 2)..Len(s) :
                          /\ s[k] = INP
                          /\ Gap(s, j + 2, k - 1)
                          /\ \E c2 \in (k + 1)..Len(s) :
                                /\ s[c2] = COLON
                                /\ Gap(s, k + 1, c2 - 1)

\* one pair of surrounding double quotes removed, when there is one
Unquote(s) ==
    IF Len(s) >= 2 /\ s[1] = QUOTE /\ s[Len(s)] = QUOTE THEN SubSeq(s, 2, Len(s) - 1) ELSE s

\* the log and the observation of entries 1..n, entry by entry
RECURSIVE PadUpTo(_, _)
PadUpTo(steps, n) ==
    IF n = 0
    THEN <<>>
    ELSE PadUpTo(steps, n - 1) \o steps[n][1].log \o <<NL, OBSERVATION, COLON, SP>>
         \o steps[n][2] \o <<NL, THOUGHT, COLON, SP>>

InTools(name) == \E i \in DOMAIN tools : Len(name) = 1 /\ name[1] = tools[i]

\* C1: one run of the executor performs at most max_iterations (3)
\* Thinking->Acting cycles, whatever the model returns: the iteration counter
\* and the transcript never exceed the cap, and no action is pending at the cap.
C1_AtMostMaxIterations ==
    /\ iterations <= 3
    /\ Len(intermediate_steps) <= 3
    /\ (pc = "act" => iterations < 3)

\* a run in which the model named a tool on every turn stopped at the cap
C1_Witness ==
    /\ pc = "return"
    /\ iterations = 3
    /\ Len(intermediate_steps) = 3
    /\ \A i \in 1..3 : intermediate_steps[i][1].type = "AgentAction"

\* C2: with a key that does not start with "sk-" generate_response is not
\* called and nothing is rendered; with a key that starts with "sk-" and a
\* query, a submission calls generate_response exactly once, with that query.
C2_CredentialGating ==
    /\ Len(calls) <= 1
    /\ (query_text = <<>> => ~submitted)
    /\ (openai_api_key.bound /\ ~InPrefixSK(openai_api_key.value)
          => calls = <<>> /\ rendered = <<>> /\ result = <<>> /\ pc \in {"idle", "form"})
    /\ (submitted /\ pc # "form" /\ (openai_api_key.bound => InPrefixSK(openai_api_key.value))
          => calls = <<query_text>> /\ query_text # <<>>)

\* a submission with an "sk-" key was answered after one call with the query
C2_Witness ==
    /\ submitted
    /\ pc = "idle"
    /\ calls = <<query_text>>
    /\ rendered # <<>>

\* C3: the tool names rendered into the prompt on every Thinking iteration
\* are those get_tools gave for the user's query before the loop (and so the
\* same on every iteration), however long the transcript is.
C3_ToolSetStable ==
    prompt # NoPrompt =>
        /\ prompt.input = query_text
        /\ prompt.tool_names = tools
        /\ {prompt.tools[i][1] : i \in DOMAIN prompt.tools} = {tools[i] : i \in DOMAIN tools}

\* a prompt rendered over a transcript that, as a query, ranks the plugins
\* in another order
C3_Witness ==
    /\ prompt # NoPrompt
    /\ iterations >= 2
    /\ prompt.agent_scratchpad # <<>>
    /\ get_tools(prompt.agent_scratchpad) # tools
    /\ prompt.tool_names = tools

\* C4: a completion containing "Final Answer:" parses to AgentFinish whose
\* answer is the text after the last marker, trimmed of whitespace; for
\* prefix + marker + " " + answer with no marker in answer it is answer trimmed.
C4_FinishAfterLastMarker ==
    (pc = "parsed" /\ Contains(llm_output, FA)) =>
        /\ output.type = "AgentFinish"
        /\ output.log = llm_output
        /\ \E i \in DOMAIN llm_output :
              /\ llm_output[i] = FA
              /\ \A j \in (i + 1)..Len(llm_output) : llm_output[j] # FA
              /\ output.output = Strip(Suffix(llm_output, i + 1), Whitespace)
        /\ (completion.shape = "finish" /\ ~Contains(completion.y, FA)
              => output.output = Strip(completion.y, Whitespace))

\* a completion with an Action pair and two markers parsed to the last answer
C4_Witness ==
    /\ pc = "parsed"
    /\ completion.shape = "finish"
    /\ HasActionPair(completion.pre)
    /\ completion.y = <<FA, NL, WORD>>
    /\ output.type = "AgentFinish"
    /\ output.output = <<WORD>>

\* C5 as stated: "Action: X", newline, "Action Input: Y" parses to AgentAction
\* with tool = trim(X) and tool_input = unquote(trim(Y)), trim taking
\* whitespace or, read narrowly, spaces only.
C5_Original ==
    (pc = "parsed" /\ completion.shape = "action") =>
        /\ output.type = "AgentAction"
        /\ output.tool = Strip(completion.x, Whitespace)
        /\ \/ output.tool_input = Unquote(Strip(completion.y, Whitespace))
           \/ output.tool_input = Unquote(Strip(completion.y, {SP}))

\* C5 amended: "Action: X", newline, "Action Input: Y" parses to AgentAction
\* with tool = trim(X) and tool_input = Y without its leading whitespace, then
\* without its trailing spaces (a trailing newline stays), then without every
\* leading and trailing double quote.
C5_ActionRoundTrip ==
    (pc = "parsed" /\ completion.shape = "action") =>
        /\ output.type = "AgentAction"
        /\ output.log = llm_output
        /\ output.tool = Strip(completion.x, Whitespace)
        /\ output.tool_input =
              Strip(RStrip(LStrip(completion.y, Whitespace), {SP}), {QUOTE})

\* an input with two leading quotes and a trailing newline: both quotes go,
\* the newline stays
C5_Witness ==
    /\ pc = "parsed"
    /\ completion.shape = "action"
    /\ completion.idx = <<DIGIT>>
    /\ completion.y = <<QUOTE, QUOTE, NL>>
    /\ output.tool_input = <<NL>>

\* C6: a completion with neither the marker nor an Action / Action Input
\* pair makes parse raise ValueError carrying the text, and the run ends
\* there: nothing is returned, appended or rendered, no tool runs, and no
\* later step of the run follows.
C6_ParseErrorFatal ==
    [][ /\ (completion' # NoSample /\ ~Contains(llm_output', FA) /\ ~HasActionPair(llm_output'))
           => output'.type = "ValueError"
        /\ output'.type = "ValueError" =>
              /\ pc' = "aborted"
              /\ output'.log = llm_output'
              /\ response' = <<>> /\ rendered' = <<>> /\ result' = <<>>
        /\ output.type = "ValueError" =>
              \/ UNCHANGED <<pc, loopVars, result, rendered>>
              \/ pc' \in {"idle", "form"} /\ output' = NoOutput /\ intermediate_steps' = <<>>
      ]_vars

\* after one tool run, a completion that is an Action line without its
\* Action Input line ended the run
C6_Witness ==
    /\ pc = "aborted"
    /\ output.type = "ValueError"
    /\ llm_output = <<ACT, COLON, SP, "t1">>
    /\ Len(intermediate_steps) = 1
    /\ Len(invoked) = 1
    /\ rendered = <<>>

C8_TranscriptAppendOnly ==
    [][ /\ \/ intermediate_steps' = intermediate_steps
           \/ /\ pc = "act" /\ pc' = "loop"
              /\ Len(intermediate_steps') = Len(intermediate_steps) + 1
              /\ SubSeq(intermediate_steps', 1, Len(intermediate_steps)) = intermediate_steps
              /\ intermediate_steps'[Len(intermediate_steps')][1] = output
           \/ /\ pc \in {"idle", "aborted"} /\ pc' \in {"idle", "form"}
              /\ intermediate_steps' = <<>>
        /\ (invoked' # invoked /\ pc' = "loop") =>
              /\ Len(invoked') = Len(invoked) + 1
              /\ Len(intermediate_steps') = Len(intermediate_steps) + 1
        /\ (prompt' # prompt /\ prompt' # NoPrompt) =>
              /\ intermediate_steps' = intermediate_steps
              /\ prompt'.agent_scratchpad = PadUpTo(intermediate_steps, Len(intermediate_steps))
      ]_vars

\* two different entries in the transcript, rendered into the last prompt
C8_Witness ==
    /\ Len(intermediate_steps) >= 2
    /\ intermediate_steps[1] # intermediate_steps[2]
    /\ Len(invoked) >= 1
    /\ prompt.agent_scratchpad = PadUpTo(intermediate_steps, 2)

KeyFree(text) == \A i \in DOMAIN text : text[i] \notin {"s", "k", "-"}

\* C10 as stated: once generate_response has been left, by return or by
\* failure, the key is no longer held; it is in no transcript entry, prompt,
\* or rendered output.
C10_KeyDiscardedOnEveryPath ==
    /\ (Waiting /\ calls # <<>>) => ~openai_api_key.bound
    /\ KeyFree(rendered) /\ KeyFree(prompt.agent_scratchpad) /\ KeyFree(prompt.input)
    /\ \A i \in DOMAIN intermediate_steps :
          KeyFree(intermediate_steps[i][1].log) /\ KeyFree(intermediate_steps[i][2])

====
